---- MODULE Spec2Model ----
(***************************************************************************)
(* Model of libs/androidfw/ResourceUtils.cpp: ExtractResourceName,         *)
(* ToResourceName and ToFormattedResourceString.                           *)
(*                                                                         *)
(* Text is a sequence of code units (integers).  A pointer is a sequence   *)
(* of length <= 1: <<>> is nullptr, <<t>> points at the text t.            *)
(* Pointers into the input of ExtractResourceName are 0-based indices.     *)
(***************************************************************************)
EXTENDS Integers, Sequences, FiniteSets, TLC

\* ------------------------------------------------------------------ bounds
MaxLen == 5        \* longest input string of ExtractResourceName
MaxBeyond == 2     \* readable bytes that follow the input in memory
MaxPoolLen == 1    \* longest string a string pool returns
MaxFieldLen == 1   \* longest field of a ResourceName handed to the formatter

\* --------------------------------------------------------------- characters
AT == 64
SLASH == 47
COLON == 58
Letter == {97, 98}
Alphabet == {AT, SLASH, COLON} \cup Letter
NarrowAlphabet == {97, SLASH}
WideAlphabet == {97, 233}

Strings(A, n) == UNION {[1..k -> A] : k \in 0..n}

Null == <<>>
Ptr(t) == <<t>>

VARIABLES
  op,                     \* the operation this behaviour runs
  pc,                     \* position inside it
  \* ExtractResourceName
  str,                    \* the input StringPiece (data[0..size))
  beyond,                 \* bytes read so far at data[size..]
  start, current,         \* scan pointers, as indices from data
  out_package, out_type, out_entry,
  has_package_separator, has_type_separator,
  extract_ret,            \* the bool returned
  examined,               \* indices of data[] that were read
  \* ToResourceName
  pool,                   \* responses of the two StringPoolRefs
  package_name,
  name,                   \* the ResourceName under construction
  calls,                  \* the pool lookups made so far, in order
  expected,               \* the base::expected returned
  \* ToFormattedResourceString
  resource_name,
  result

extractVars == <<str, beyond, start, current, out_package, out_type, out_entry,
                 has_package_separator, has_type_separator, extract_ret, examined>>
nameVars == <<pool, package_name, name, calls, expected>>
formatVars == <<resource_name, result>>
vars == <<op, pc, extractVars, nameVars, formatVars>>

\* ------------------------------------------------------------ ResourceName
EmptyName ==
  [package |-> Null, package_len |-> 0,
   type |-> Null, type16 |-> Null, type_len |-> 0,
   entry |-> Null, entry16 |-> Null, entry_len |-> 0]

NoExpected == [has_value |-> FALSE, value |-> EmptyName,
               error |-> [kind |-> "none", from |-> "none"]]

\* ============================================================================
\* ExtractResourceName
\* ============================================================================
size == Len(str)
end == size

\* The byte at data[i]: inside the input, or one already read beyond it.
CharAt(i) == IF i < size THEN str[i + 1] ELSE beyond[i - size + 1]

\* StringPiece::assign(data + from, len)
Slice(from, len) == [k \in 1..len |-> CharAt(from + k - 1)]

\* Faulty variant of SkipMarker: the marker is kept as data.
SkipMarkerNever(c) == 0

\* if (start[0] == '@') start++;
SkipMarker(c) == IF c = AT THEN 1 ELSE 0

\* Faulty variant of ReturnValue: the type separator is not validated.
ReturnValueNoType(hps, hts, pkg, typ) == ~(hps /\ pkg = <<>>)

\* !(has_package_separator && out_package->empty()) &&
\* !(has_type_separator && out_type->empty())
ReturnValue(hps, hts, pkg, typ) ==
  ~(hps /\ pkg = <<>>) /\ ~(hts /\ typ = <<>>)

\* out_type->size() == 0 && *current == '/'
TypeFires(typ, c) == typ = <<>> /\ c = SLASH

\* out_package->size() == 0 && *current == ':'
PackageFires(pkg, c) == pkg = <<>> /\ c = COLON

\* The body of the constructor part and the '@' test, given the byte c read
\* at start[0].
ExtractBeginWith(c) ==
  /\ out_package' = <<>>
  /\ out_type' = <<>>
  /\ has_package_separator' = FALSE
  /\ has_type_separator' = FALSE
  /\ start' = SkipMarker(c)
  /\ current' = SkipMarker(c)
  /\ pc' = "scan"

\* A read outside the input either hits unmapped memory or yields a byte
\* nobody controls.
ExtractBegin ==
  /\ pc = "extract"
  /\ examined' = examined \cup {0}
  /\ UNCHANGED <<op, str, out_entry, extract_ret, nameVars, formatVars>>
  /\ IF 0 < size
       THEN /\ ExtractBeginWith(str[1])
            /\ UNCHANGED beyond
       ELSE \/ /\ pc' = "fault"
               /\ UNCHANGED <<beyond, start, current, out_package, out_type,
                              has_package_separator, has_type_separator>>
            \/ /\ Len(beyond) < MaxBeyond
               /\ \E c \in Alphabet :
                    /\ beyond' = Append(beyond, c)
                    /\ ExtractBeginWith(c)

\* One iteration of the while loop, given the byte c at *current (c is not
\* looked at when both fields are already non-empty).
ScanWith(c) ==
  /\ IF TypeFires(out_type, c)
       THEN /\ has_type_separator' = TRUE
            /\ out_type' = Slice(start, current - start)
            /\ start' = current + 1
            /\ UNCHANGED <<has_package_separator, out_package>>
       ELSE IF PackageFires(out_package, c)
         THEN /\ has_package_separator' = TRUE
              /\ out_package' = Slice(start, current - start)
              /\ start' = current + 1
              /\ UNCHANGED <<has_type_separator, out_type>>
         ELSE UNCHANGED <<has_type_separator, out_type, has_package_separator,
                          out_package, start>>
  /\ current' = current + 1
  /\ pc' = "scan"

ReadsCurrent == out_type = <<>> \/ out_package = <<>>

ScanStep ==
  /\ pc = "scan"
  /\ current # end
  /\ UNCHANGED <<op, str, out_entry, extract_ret, nameVars, formatVars>>
  /\ IF current < size + Len(beyond)
       THEN /\ ScanWith(CharAt(current))
            /\ examined' = IF ReadsCurrent THEN examined \cup {current} ELSE examined
            /\ UNCHANGED beyond
       ELSE \/ /\ pc' = "fault"
               /\ examined' = IF ReadsCurrent THEN examined \cup {current} ELSE examined
               /\ UNCHANGED <<beyond, start, current, out_package, out_type,
                              has_package_separator, has_type_separator>>
            \/ /\ Len(beyond) < MaxBeyond
               /\ examined' = IF ReadsCurrent THEN examined \cup {current} ELSE examined
               /\ \E c \in Alphabet :
                    /\ beyond' = Append(beyond, c)
                    /\ ScanWith(c)

ExtractReturn ==
  /\ pc = "scan"
  /\ current = end
  /\ out_entry' = Slice(start, end - start)
  /\ extract_ret' = ReturnValue(has_package_separator, has_type_separator,
                                out_package, out_type)
  /\ pc' = "returned"
  /\ UNCHANGED <<op, str, beyond, start, current, out_package, out_type,
                 has_package_separator, has_type_separator, examined,
                 nameVars, formatVars>>

\* ============================================================================
\* ToResourceName
\* ============================================================================
Kinds == {"ok", "null", "io"}

\* What one lookup (string8 or string16) of a StringPoolRef answers: a string,
\* or a NullOrIOError holding nullopt or an IOError.
Responses ==
  [kind : {"ok"}, text : Strings(Letter, MaxPoolLen)]
    \cup [kind : Kinds \ {"ok"}, text : {<<>>}]

Lookup(ref, width) == pool[ref][width]

\* The NullOrIOError a failed lookup carries; `from` identifies the lookup.
ErrorOf(resp, from) == [kind |-> resp.kind, from |-> from]

\* if (expected<...> s = ref.string8())
HasValue(resp) == resp.kind = "ok"

\* Faulty variant of IsIOError: an I/O failure is taken for absence.
IsIOErrorNever(resp) == FALSE

\* IsIOError(str): no value, and the error holds an IOError
IsIOError(resp) == resp.kind = "io"

\* Faulty variant of Wide16Fails: absence of the wide string is let through.
Wide16FailsOnlyOnIO(resp) == resp.kind = "io"

\* else if (!type16_str.has_value())
Wide16Fails(resp) == ~HasValue(resp)

\* Faulty variant of StillUnset: the wide lookup is always made.
StillUnsetAlways(p) == TRUE

\* if (name.type == nullptr)
StillUnset(p) == p = Null

Unexpected(err) == [has_value |-> FALSE, value |-> EmptyName, error |-> err]

ToResourceNameBegin ==
  /\ pc = "m_begin"
  /\ name' = [EmptyName EXCEPT !.package = package_name,
                               !.package_len = IF package_name = Null THEN 0
                                               ELSE Len(package_name[1])]
  /\ pc' = "m_type8"
  /\ UNCHANGED <<op, pool, package_name, calls, expected, extractVars, formatVars>>

TypeString8 ==
  /\ pc = "m_type8"
  /\ calls' = Append(calls, "type8")
  /\ LET r == Lookup("type", "s8") IN
       IF HasValue(r)
         THEN /\ name' = [name EXCEPT !.type = Ptr(r.text), !.type_len = Len(r.text)]
              /\ pc' = "m_type16"
              /\ UNCHANGED expected
         ELSE IF IsIOError(r)
           THEN /\ expected' = Unexpected(ErrorOf(r, "type8"))
                /\ pc' = "m_done"
                /\ UNCHANGED name
           ELSE /\ pc' = "m_type16"
                /\ UNCHANGED <<name, expected>>
  /\ UNCHANGED <<op, pool, package_name, extractVars, formatVars>>

TypeString16 ==
  /\ pc = "m_type16"
  /\ IF StillUnset(name.type)
       THEN /\ calls' = Append(calls, "type16")
            /\ LET r == Lookup("type", "s16") IN
                 IF HasValue(r)
                   THEN /\ name' = [name EXCEPT !.type16 = Ptr(r.text),
                                                !.type_len = Len(r.text)]
                        /\ pc' = "m_entry8"
                        /\ UNCHANGED expected
                   ELSE IF Wide16Fails(r)
                     THEN /\ expected' = Unexpected(ErrorOf(r, "type16"))
                          /\ pc' = "m_done"
                          /\ UNCHANGED name
                     ELSE /\ pc' = "m_entry8"
                          /\ UNCHANGED <<name, expected>>
       ELSE /\ pc' = "m_entry8"
            /\ UNCHANGED <<name, calls, expected>>
  /\ UNCHANGED <<op, pool, package_name, extractVars, formatVars>>

EntryString8 ==
  /\ pc = "m_entry8"
  /\ calls' = Append(calls, "entry8")
  /\ LET r == Lookup("entry", "s8") IN
       IF HasValue(r)
         THEN /\ name' = [name EXCEPT !.entry = Ptr(r.text), !.entry_len = Len(r.text)]
              /\ pc' = "m_entry16"
              /\ UNCHANGED expected
         ELSE IF IsIOError(r)
           THEN /\ expected' = Unexpected(ErrorOf(r, "entry8"))
                /\ pc' = "m_done"
                /\ UNCHANGED name
           ELSE /\ pc' = "m_entry16"
                /\ UNCHANGED <<name, expected>>
  /\ UNCHANGED <<op, pool, package_name, extractVars, formatVars>>

EntryString16 ==
  /\ pc = "m_entry16"
  /\ IF StillUnset(name.entry)
       THEN /\ calls' = Append(calls, "entry16")
            /\ LET r == Lookup("entry", "s16") IN
                 IF HasValue(r)
                   THEN /\ name' = [name EXCEPT !.entry16 = Ptr(r.text),
                                                !.entry_len = Len(r.text)]
                        /\ pc' = "m_return"
                        /\ UNCHANGED expected
                   ELSE IF Wide16Fails(r)
                     THEN /\ expected' = Unexpected(ErrorOf(r, "entry16"))
                          /\ pc' = "m_done"
                          /\ UNCHANGED name
                     ELSE /\ pc' = "m_return"
                          /\ UNCHANGED <<name, expected>>
       ELSE /\ pc' = "m_return"
            /\ UNCHANGED <<name, calls, expected>>
  /\ UNCHANGED <<op, pool, package_name, extractVars, formatVars>>

ToResourceNameReturn ==
  /\ pc = "m_return"
  /\ expected' = [has_value |-> TRUE, value |-> name,
                  error |-> [kind |-> "none", from |-> "none"]]
  /\ pc' = "m_done"
  /\ UNCHANGED <<op, pool, package_name, name, calls, extractVars, formatVars>>

\* ============================================================================
\* ToFormattedResourceString
\* ============================================================================
\* util::Utf16ToUtf8 on code units of the basic plane outside the surrogates.
Utf16UnitToUtf8(u) ==
  IF u < 128 THEN <<u>>
  ELSE IF u < 2048 THEN <<192 + (u \div 64), 128 + (u % 64)>>
  ELSE <<224 + (u \div 4096), 128 + ((u \div 64) % 64), 128 + (u % 64)>>

RECURSIVE Utf16ToUtf8(_)
Utf16ToUtf8(w) ==
  IF w = <<>> THEN <<>> ELSE Utf16UnitToUtf8(Head(w)) \o Utf16ToUtf8(Tail(w))

\* std::string::append(data, len) / StringPiece16(data, len)
Take(p, len) == SubSeq(p[1], 1, len)

\* Faulty variant of NeedsSeparator: the separator is always written.
NeedsSeparatorAlways(r) == TRUE

\* if (!result.empty())
NeedsSeparator(r) == r # <<>>

\* Faulty variant of FieldText: the wide pointer is preferred.
FieldTextWideFirst(p8, p16, len) ==
  IF p16 # Null
    THEN Utf16ToUtf8(Take(p16, IF len < Len(p16[1]) THEN len ELSE Len(p16[1])))
    ELSE Take(p8, len)

\* The text of one field: the narrow pointer when set, else the wide one decoded.
FieldText(p8, p16, len) ==
  IF p8 # Null THEN Take(p8, len) ELSE Utf16ToUtf8(Take(p16, len))

FormatPackage ==
  /\ pc = "f_package"
  /\ result' = IF resource_name.package # Null
                 THEN Take(resource_name.package, resource_name.package_len)
                 ELSE <<>>
  /\ pc' = "f_type"
  /\ UNCHANGED <<op, resource_name, extractVars, nameVars>>

FormatType ==
  /\ pc = "f_type"
  /\ result' =
       IF resource_name.type # Null \/ resource_name.type16 # Null
         THEN (IF NeedsSeparator(result) THEN result \o <<COLON>> ELSE result)
              \o FieldText(resource_name.type, resource_name.type16,
                           resource_name.type_len)
         ELSE result
  /\ pc' = "f_entry"
  /\ UNCHANGED <<op, resource_name, extractVars, nameVars>>

FormatEntry ==
  /\ pc = "f_entry"
  /\ result' =
       IF resource_name.entry # Null \/ resource_name.entry16 # Null
         THEN (IF NeedsSeparator(result) THEN result \o <<SLASH>> ELSE result)
              \o FieldText(resource_name.entry, resource_name.entry16,
                           resource_name.entry_len)
         ELSE result
  /\ pc' = "f_done"
  /\ UNCHANGED <<op, resource_name, extractVars, nameVars>>

\* ============================================================================
\* A caller that resolves the tokenizer's outputs and formats them
\* ============================================================================
\* The ways a text can be held by a narrow/wide field pair: narrow, wide, or
\* (an empty text only) not at all.
Holdings(t) ==
  {<<Ptr(t), Null>>, <<Null, Ptr(t)>>} \cup (IF t = <<>> THEN {<<Null, Null>>} ELSE {})

ResolveAndFormat ==
  /\ pc = "returned"
  /\ extract_ret
  /\ \E p \in {Ptr(out_package)} \cup (IF out_package = <<>> THEN {Null} ELSE {}),
        t \in Holdings(out_type), e \in Holdings(out_entry) :
       resource_name' =
         [package |-> p, package_len |-> Len(out_package),
          type |-> t[1], type16 |-> t[2], type_len |-> Len(out_type),
          entry |-> e[1], entry16 |-> e[2], entry_len |-> Len(out_entry)]
  /\ pc' = "f_package"
  /\ UNCHANGED <<op, result, extractVars, nameVars>>

\* ============================================================================
\* Specification
\* ============================================================================
Pointers(S) == {Null} \cup {Ptr(t) : t \in S}

\* Every ResourceName whose lengths fit its texts; where both pointers of a
\* field are set the length is the narrow text's.
FieldTriples(S8, S16) ==
  {<<pq[1], pq[2], IF pq[1] # Null THEN Len(pq[1][1])
                   ELSE IF pq[2] # Null THEN Len(pq[2][1]) ELSE 0>> :
     pq \in Pointers(S8) \X Pointers(S16)}

ResourceNames ==
  LET S8 == Strings(NarrowAlphabet, MaxFieldLen)
      S16 == Strings(WideAlphabet, MaxFieldLen)
  IN {[package |-> p, package_len |-> IF p = Null THEN 0 ELSE Len(p[1]),
       type |-> t[1], type16 |-> t[2], type_len |-> t[3],
       entry |-> e[1], entry16 |-> e[2], entry_len |-> e[3]] :
        p \in Pointers(S8), t \in FieldTriples(S8, S16), e \in FieldTriples(S8, S16)}

InitExtractVars ==
  /\ str = <<>> /\ beyond = <<>> /\ start = 0 /\ current = 0
  /\ out_package = <<>> /\ out_type = <<>> /\ out_entry = <<>>
  /\ has_package_separator = FALSE /\ has_type_separator = FALSE
  /\ extract_ret = FALSE /\ examined = {}

InitNameVars ==
  /\ pool = [r \in {"type", "entry"} |->
               [w \in {"s8", "s16"} |-> [kind |-> "null", text |-> <<>>]]]
  /\ package_name = Null /\ name = EmptyName /\ calls = <<>>
  /\ expected = NoExpected

InitFormatVars ==
  /\ resource_name = EmptyName /\ result = <<>>

Init ==
  \/ /\ op = "ExtractResourceName" /\ pc = "extract"
     /\ str \in Strings(Alphabet, MaxLen)
     /\ beyond = <<>> /\ start = 0 /\ current = 0
     /\ out_package = <<>> /\ out_type = <<>> /\ out_entry = <<>>
     /\ has_package_separator = FALSE /\ has_type_separator = FALSE
     /\ extract_ret = FALSE /\ examined = {}
     /\ InitNameVars /\ InitFormatVars
  \/ /\ op = "ToResourceName" /\ pc = "m_begin"
     /\ pool \in [{"type", "entry"} -> [{"s8", "s16"} -> Responses]]
     /\ package_name \in Pointers(Strings(Letter, MaxPoolLen))
     /\ name = EmptyName /\ calls = <<>> /\ expected = NoExpected
     /\ InitExtractVars /\ InitFormatVars
  \/ /\ op = "ToFormattedResourceString" /\ pc = "f_package"
     /\ resource_name \in ResourceNames
     /\ result = <<>>
     /\ InitExtractVars /\ InitNameVars

Next ==
  \/ ExtractBegin
  \/ ScanStep
  \/ ExtractReturn
  \/ ResolveAndFormat
  \/ ToResourceNameBegin
  \/ TypeString8
  \/ TypeString16
  \/ EntryString8
  \/ EntryString16
  \/ ToResourceNameReturn
  \/ FormatPackage
  \/ FormatType
  \/ FormatEntry

Spec == Init /\ [][Next]_vars

\* ============================================================================
\* Properties
\* ============================================================================
Range(s) == {s[i] : i \in DOMAIN s}

\* The input without the reference marker.
Stripped == IF str # <<>> /\ str[1] = AT THEN Tail(str) ELSE str

\* ExtractResourceName has returned (its outputs stay as they are afterwards).
Returned ==
  /\ op = "ExtractResourceName"
  /\ pc \in {"returned", "f_package", "f_type", "f_entry", "f_done"}

\* The caller has formatted the tokenizer's outputs.
RoundTripDone == op = "ExtractResourceName" /\ pc = "f_done"

SepFree(t) == COLON \notin Range(t) /\ SLASH \notin Range(t)

Max(a, b) == IF a > b THEN a ELSE b

\* s read as [package ":"] [type "/"] entry, the ':' at index i and the '/'
\* at index j (0: that part is missing); package and type non-empty and free
\* of separators.
ParsesAs(s, i, j) ==
  /\ i = 0 \/ (i > 1 /\ s[i] = COLON /\ SepFree(SubSeq(s, 1, i - 1)))
  /\ j = 0 \/ (j > i + 1 /\ s[j] = SLASH /\ SepFree(SubSeq(s, i + 1, j - 1)))

EntryOf(s, i, j) == SubSeq(s, Max(i, j) + 1, Len(s))

InGrammar(s) == \E i, j \in 0..Len(s) : ParsesAs(s, i, j)

\* The grammar with an entry that holds a ':' only after a package and a '/'
\* only after a type.
InUnambiguousGrammar(s) ==
  \E i, j \in 0..Len(s) :
    /\ ParsesAs(s, i, j)
    /\ i = 0 => COLON \notin Range(EntryOf(s, i, j))
    /\ j = 0 => SLASH \notin Range(EntryOf(s, i, j))

\* The same, where a package is always followed by a type.
InTypedGrammar(s) ==
  \E i, j \in 0..Len(s) :
    /\ ParsesAs(s, i, j)
    /\ i = 0 => COLON \notin Range(EntryOf(s, i, j))
    /\ j = 0 => (i = 0 /\ SLASH \notin Range(EntryOf(s, i, j)))

Rejoin ==
  (IF out_package # <<>> THEN out_package \o <<COLON>> ELSE <<>>)
    \o (IF out_type # <<>> THEN out_type \o <<SLASH>> ELSE <<>>)
    \o out_entry

\* ---------------------------------------------------------------------- C2
\* C2 as stated: for every string of the grammar [package ":"] [type "/"] entry
\* (entry opaque), the call returns true and its outputs re-joined with the
\* implied separators give the input without its marker.
C2_AsStated ==
  (Returned /\ InGrammar(Stripped)) => (extract_ret /\ Rejoin = Stripped)

\* C2 amended: the same for the strings of the grammar whose entry holds a
\* ':' only when a package is present and a '/' only when a type is present.
C2_RejoinUnambiguous ==
  (Returned /\ InUnambiguousGrammar(Stripped)) => (extract_ret /\ Rejoin = Stripped)

C2_Witness ==
  /\ pc = "returned"
  /\ InUnambiguousGrammar(Stripped)
  /\ out_package # <<>> /\ out_type # <<>>
  /\ (COLON \in Range(out_entry) \/ SLASH \in Range(out_entry))
  /\ extract_ret /\ Rejoin = Stripped

\* ---------------------------------------------------------------------- C3
FirstIndex(s, c) ==
  IF c \in Range(s) THEN CHOOSE i \in DOMAIN s : s[i] = c /\ \A k \in 1..(i - 1) : s[k] # c
  ELSE 0

\* The span that the first occurrence of c ends: it begins after the first
\* occurrence of the other separator d when that one comes earlier.
SpanEndedByFirst(s, c, d) ==
  LET f == FirstIndex(s, c)
      g == FirstIndex(s, d)
  IN IF f = 0 THEN <<>>
     ELSE SubSeq(s, (IF 0 < g /\ g < f THEN g + 1 ELSE 1), f - 1)

\* C3 as stated: only the first '/' and the first ':' of the string separate;
\* type is the span the first '/' ends, package the span the first ':' ends,
\* and everything after the later of the two is the entry.
C3_FirstSeparatorsOnly ==
  Returned =>
    /\ out_type = SpanEndedByFirst(Stripped, SLASH, COLON)
    /\ out_package = SpanEndedByFirst(Stripped, COLON, SLASH)
    /\ out_entry = SubSeq(Stripped,
                          Max(FirstIndex(Stripped, SLASH), FirstIndex(Stripped, COLON)) + 1,
                          Len(Stripped))

\* ---------------------------------------------------------------------- C4
\* C4 as stated: whenever the tokenizer accepts s, formatting a name made of
\* its three outputs gives s without its marker.
C4_AsStated == RoundTripDone => result = Stripped

\* C4 amended: the round trip holds for [package ":"] type "/" entry (package
\* and type non-empty and separator-free, the entry holding a ':' only after a
\* package) and for a separator-free bare entry, the entry being a present
\* field.
C4_RoundTripTyped ==
  (/\ RoundTripDone
   /\ InTypedGrammar(Stripped)
   /\ (resource_name.entry # Null \/ resource_name.entry16 # Null))
    => result = Stripped

C4_Witness ==
  /\ RoundTripDone
  /\ InTypedGrammar(Stripped)
  /\ out_package # <<>> /\ out_type # <<>> /\ out_entry # <<>>
  /\ resource_name.type16 # Null
  /\ result = Stripped

\* ---------------------------------------------------------------------- C7
\* C7: the call returns false exactly when the input holds a ':' and the
\* package output is empty, or holds a '/' and the type output is empty.
C7_ReturnsFalseIff ==
  Returned =>
    (extract_ret = FALSE <=>
       \/ (COLON \in Range(str) /\ out_package = <<>>)
       \/ (SLASH \in Range(str) /\ out_type = <<>>))

C7_Witness ==
  /\ pc = "returned"
  /\ extract_ret = FALSE
  /\ SLASH \in Range(str) /\ out_type = <<>>
  /\ out_package # <<>>

\* ---------------------------------------------------------------------- C9
\* C9: the empty input and the lone '@' both give three empty outputs and
\* true; a leading '@' is skipped and no output starts at it.
C9_EmptyAndMarker ==
  op = "ExtractResourceName" =>
    /\ str \in {<<>>, <<AT>>} =>
         /\ pc # "fault"
         /\ pc = "scan" => current = end
         /\ Returned => (/\ out_package = <<>> /\ out_type = <<>>
                         /\ out_entry = <<>> /\ extract_ret)
    /\ (str # <<>> /\ str[1] = AT /\ pc # "extract") => start >= 1

\* --------------------------------------------------------------------- C10
\* C10: only indices inside [0, size) are read and the scan pointer never
\* passes the end.
C10_ReadsInsideInput ==
  /\ \A i \in examined : i < size
  /\ current <= end

\* ------------------------------------------------- ToResourceName properties
ToResourceNameDone == op = "ToResourceName" /\ pc = "m_done"

\* What the pool answers to each of the four lookups.
Answer(call) ==
  CASE call = "type8" -> pool["type"]["s8"]
    [] call = "type16" -> pool["type"]["s16"]
    [] call = "entry8" -> pool["entry"]["s8"]
    [] call = "entry16" -> pool["entry"]["s16"]

Rank(call) ==
  CASE call = "type8" -> 1 [] call = "type16" -> 2
    [] call = "entry8" -> 3 [] call = "entry16" -> 4

Narrow(field) == IF field = "type" THEN "type8" ELSE "entry8"
Wide(field) == IF field = "type" THEN "type16" ELSE "entry16"
NarrowPtr(n, field) == IF field = "type" THEN n.type ELSE n.entry
WidePtr(n, field) == IF field = "type" THEN n.type16 ELSE n.entry16

C5_LookupOrderAndAbort ==
  op = "ToResourceName" =>
    /\ \A i, j \in DOMAIN calls : i < j => Rank(calls[i]) < Rank(calls[j])
    /\ \A i \in DOMAIN calls :
         Answer(calls[i]).kind = "io" =>
           /\ i = Len(calls)
           /\ pc = "m_done"
           /\ expected = Unexpected([kind |-> "io", from |-> calls[i]])
    /\ \A f \in {"type", "entry"} :
         (Narrow(f) \in Range(calls) /\ Answer(Narrow(f)).kind = "io")
           => Wide(f) \notin Range(calls)

C5_Witness ==
  /\ ToResourceNameDone
  /\ calls = <<"type8", "type16", "entry8">>
  /\ Answer("entry8").kind = "io"
  /\ expected = Unexpected([kind |-> "io", from |-> "entry8"])

\* ---------------------------------------------------------------------- C6
\* C6: in a returned ResourceName the narrow and the wide pointer of a field
\* are never both set; the narrow one is set exactly when the narrow lookup
\* succeeded, the wide one exactly when the narrow lookup reported absence and
\* the wide lookup succeeded.
C6_OneEncodingPerField ==
  (ToResourceNameDone /\ expected.has_value) =>
    \A f \in {"type", "entry"} :
      LET n8 == NarrowPtr(expected.value, f)
          n16 == WidePtr(expected.value, f)
      IN /\ ~(n8 # Null /\ n16 # Null)
         /\ n8 # Null <=> Answer(Narrow(f)).kind = "ok"
         /\ n16 # Null <=>
              (Answer(Narrow(f)).kind = "null" /\ Answer(Wide(f)).kind = "ok")
         /\ n8 # Null => n8 = Ptr(Answer(Narrow(f)).text)
         /\ n16 # Null => n16 = Ptr(Answer(Wide(f)).text)

C6_Witness ==
  /\ ToResourceNameDone /\ expected.has_value
  /\ expected.value.type # Null /\ expected.value.type16 = Null
  /\ expected.value.entry = Null /\ expected.value.entry16 # Null
  /\ Answer("type16").kind = "ok"

\* ---------------------------------------------------------------------- C8
\* C8: the output is package, type and entry in that order; each of type and
\* entry is the narrow text when the narrow pointer is set, else the decoded
\* wide text, else nothing; ':' comes before a present type exactly when
\* package text was written, '/' before a present entry exactly when any text
\* was written before it.
C8_FormatShape ==
  pc = "f_done" =>
    LET n == resource_name
        pkg == IF n.package # Null THEN SubSeq(n.package[1], 1, n.package_len) ELSE <<>>
        hasType == n.type # Null \/ n.type16 # Null
        hasEntry == n.entry # Null \/ n.entry16 # Null
        typ == IF n.type # Null THEN SubSeq(n.type[1], 1, n.type_len)
               ELSE IF n.type16 # Null
                 THEN Utf16ToUtf8(SubSeq(n.type16[1], 1, n.type_len))
                 ELSE <<>>
        ent == IF n.entry # Null THEN SubSeq(n.entry[1], 1, n.entry_len)
               ELSE IF n.entry16 # Null
                 THEN Utf16ToUtf8(SubSeq(n.entry16[1], 1, n.entry_len))
                 ELSE <<>>
        colon == IF hasType /\ pkg # <<>> THEN <<COLON>> ELSE <<>>
        slash == IF hasEntry /\ (pkg \o typ) # <<>> THEN <<SLASH>> ELSE <<>>
    IN result = pkg \o colon \o typ \o slash \o ent

C8_Witness ==
  /\ op = "ToFormattedResourceString" /\ pc = "f_done"
  /\ resource_name.package # Null /\ resource_name.package_len > 0
  /\ resource_name.type # Null /\ resource_name.type16 # Null
  /\ resource_name.type[1] # resource_name.type16[1]
  /\ resource_name.entry = Null /\ resource_name.entry16 # Null
  /\ 233 \in Range(resource_name.entry16[1])
  /\ Len(result) > resource_name.package_len + 1 + resource_name.type_len
                   + 1 + resource_name.entry_len

====
